---- MODULE Spec2Model ----
(***************************************************************************)
(* Model of the etcd flag Updater (src/unnamed/part_000): Initialize,      *)
(* Start, Stop, the watch loop watchForUpdates with its error classes, and *)
(* rollbackEtcdValue, running against an etcd-like store (hierarchical     *)
(* keys, one global modification index, compare-and-swap on prevIndex).    *)
(*                                                                         *)
(* Strings the code takes apart (keys, the etcd path, flag names) are      *)
(* sequences of one-character strings; values are whole tokens.            *)
(***************************************************************************)
EXTENDS Integers, Sequences, FiniteSets, TLC

\* ------------------------------------------------------------------ bounds

\* The changes of other clients the model follows; the loop may still roll back the
\* last of them.
MaxMutations == 2

\* The Set calls made on the DynProto3Value, over all goroutines.
MaxCalls == 2

\* ----------------------------------------------------------------- strings

Slash == "/"

\* strings.HasPrefix(s, p)
HasPrefix(s, p) == Len(s) >= Len(p) /\ SubSeq(s, 1, Len(p)) = p

\* strings.HasSuffix(s, p)
HasSuffix(s, p) == Len(s) >= Len(p) /\ SubSeq(s, Len(s) - Len(p) + 1, Len(s)) = p

\* strings.TrimPrefix(s, p)
TrimPrefix(s, p) == IF HasPrefix(s, p) THEN SubSeq(s, Len(p) + 1, Len(s)) ELSE s

\* strings.Count(s, c) for a one-character c
Count(s, c) == Cardinality({i \in 1..Len(s) : s[i] = c})

\* ------------------------------------------------------- keys of the store

\* The path handed to New, with and without the trailing separator.
PathArgs == {<<"/", "c">>, <<"/", "c", "/">>}

KeyA == <<"/", "c", "/", "a">>
KeyS == <<"/", "c", "/", "s">>
KeyU == <<"/", "c", "/", "u">>
KeyDir == <<"/", "c", "/", "d">>
KeyDeep == <<"/", "c", "/", "d", "/", "a">>

AllKeys == {KeyA, KeyS, KeyU, KeyDir, KeyDeep}

\* The children of the watched directory, in the order a sorted Get lists them.
DirChildren == <<KeyA, KeyDir, KeyS, KeyU>>

\* -------------------------------------------------------- the flag registry

FlagA == <<"a">>
FlagS == <<"s">>

\* The flags registered in the FlagSet.
FlagNames == {FlagA, FlagS}

\* flagz.IsFlagDynamic
IsFlagDynamic(name) == name = FlagA

\* The value strings other clients write; "" is a node without a value.
Values == {"5", "7"}

\* The flag value's own parser: an integer, or a parse error.
ParseValue(str) ==
  CASE str = "5" -> [ok |-> TRUE, v |-> 5]
    [] str = "7" -> [ok |-> TRUE, v |-> 7]
    [] OTHER -> [ok |-> FALSE, v |-> 0]

\* The validator of the dynamic flag "a" (values above 5 are refused); "s" has none.
Validate(name, v) == name # FlagA \/ v <= 5

\* flag.Value.Set(value): parse, validate, then publish; an error leaves the value.
FlagValueSet(fl, name, value) ==
  LET p == ParseValue(value) IN
  IF ~p.ok THEN [err |-> "parse", flags |-> fl]
  ELSE IF ~Validate(name, p.v) THEN [err |-> "validation", flags |-> fl]
  ELSE [err |-> "nil", flags |-> [fl EXCEPT ![name] = p.v]]

\* Whether the flag's Set takes the string.
Accepts(name, value) == ParseValue(value).ok /\ Validate(name, ParseValue(value).v)

\* ------------------------------------------------------------------- state

VARIABLES
  etcdPath,    \* Updater.etcdPath, normalised by New
  flags,       \* the FlagSet: flag name -> current value
  lastIndex,   \* Updater.lastIndex
  watching,    \* Updater.watching
  cancelled,   \* whether Updater.cancel has been called (context done)
  pc,          \* where the watchForUpdates goroutine is
  wcursor,     \* the index the current etcd watcher waits after
  resp,        \* the watch response being rolled back (pc = "Rollback")
  store,       \* etcd: key -> node
  storeIndex,  \* etcd: the global modification index
  history,     \* etcd: the change events, in index order
  ret,         \* the last lifecycle call and what it returned
  issued,      \* the Set and Delete requests rollbackEtcdValue has sent
  initDone     \* whether an Initialize has read the snapshot

\* The state of one DynProto3Value and of the goroutines that call it
\* (src/protobuf/dynproto3.go).
VARIABLES
  ptr,         \* DynProto3Value.ptr: the instance stored (an index of structs)
  structs,     \* the instances allocated so far, each with its fields
  validator,   \* whether DynProto3Value.validator is set
  notifier,    \* whether DynProto3Value.notifier is set
  goroutine,   \* per calling goroutine: the call it is in and what it last returned
  notified,    \* the notifier invocations spawned, and whether each has finished
  setCalls,    \* the Set calls made: input and the instance allocated for it
  swaps        \* the atomic swaps performed: the instance replaced and the new one

etcdVars == <<etcdPath, flags, lastIndex, watching, cancelled, pc, wcursor, resp,
              store, storeIndex, history, ret, issued, initDone>>

dynVars == <<ptr, structs, validator, notifier, goroutine, notified, setCalls, swaps>>

vars == <<etcdVars, dynVars>>

updaterVars == <<etcdPath, flags, lastIndex, watching, cancelled, pc, wcursor, resp,
                 ret, issued, initDone>>

NoNode == [present |-> FALSE, dir |-> FALSE, value |-> "", modIndex |-> 0]

NoResp == [action |-> "none", key |-> <<>>, dir |-> FALSE, value |-> "",
           modIndex |-> 0, hasPrev |-> FALSE, prevValue |-> ""]

\* -------------------------------------------------------------------- etcd

\* A change event as the watcher delivers it: Node, and PrevNode when there was one.
Event(action, key, isDir, value, index, old) ==
  [action |-> action, key |-> key, dir |-> isDir, value |-> value, modIndex |-> index,
   hasPrev |-> old.present, prevValue |-> old.value]

\* A write creates the directory above a nested key when it is missing.
WithParent(st, key, index) ==
  IF key = KeyDeep /\ ~st[KeyDir].present
  THEN [st EXCEPT ![KeyDir] = [present |-> TRUE, dir |-> TRUE, value |-> "", modIndex |-> index]]
  ELSE st

\* The store after a write of value to key at the next index.
Written(st, idx, key, value) ==
  [WithParent(st, key, idx + 1) EXCEPT
     ![key] = [present |-> TRUE, dir |-> FALSE, value |-> value, modIndex |-> idx + 1]]

\* KeysAPI.Set with PrevIndex: the conditioned write of etcd.
StoreSet(st, idx, hist, key, value, prevIndex) ==
  IF ~st[key].present
  THEN [res |-> "KeyNotFound", store |-> st, index |-> idx, history |-> hist]
  ELSE IF prevIndex # 0 /\ st[key].modIndex # prevIndex
  THEN [res |-> "TestFailed", store |-> st, index |-> idx, history |-> hist]
  ELSE [res |-> "ok", store |-> Written(st, idx, key, value), index |-> idx + 1,
        history |-> Append(hist, Event("compareAndSwap", key, FALSE, value, idx + 1, st[key]))]

\* KeysAPI.Delete with PrevIndex: the conditioned delete of etcd.
StoreDelete(st, idx, hist, key, prevIndex) ==
  IF ~st[key].present
  THEN [res |-> "KeyNotFound", store |-> st, index |-> idx, history |-> hist]
  ELSE IF prevIndex # 0 /\ st[key].modIndex # prevIndex
  THEN [res |-> "TestFailed", store |-> st, index |-> idx, history |-> hist]
  ELSE [res |-> "ok", store |-> [st EXCEPT ![key] = NoNode], index |-> idx + 1,
        history |-> Append(hist, Event("compareAndDelete", key, FALSE, "", idx + 1, st[key]))]

\* KeysAPI.Get, recursive and sorted: the children of the path that exist.
GetNodes(st) ==
  LET present(k) == st[k].present
      node(k) == [key |-> k, dir |-> st[k].dir, value |-> st[k].value,
                  modIndex |-> st[k].modIndex]
      RECURSIVE list(_)
      list(i) == IF i > Len(DirChildren) THEN <<>>
                 ELSE IF present(DirChildren[i]) THEN <<node(DirChildren[i])>> \o list(i + 1)
                 ELSE list(i + 1)
  IN list(1)

\* A watcher that also delivers the events before its index again.
PendingAgain(hist, after) == {i \in 1..Len(hist) : hist[i].modIndex # after}

\* The first event after the watcher's index, if any (watcher.Next).
Pending(hist, after) == {i \in 1..Len(hist) : hist[i].modIndex > after}

NextEvent(hist, after) ==
  hist[CHOOSE i \in Pending(hist, after) : \A j \in Pending(hist, after) : i <= j]

\* ----------------------------------------------------------------- Updater

\* New: the etcd path always ends with the separator.
New(path) == IF ~HasSuffix(path, <<Slash>>) THEN path \o <<Slash>> ELSE path

\* nodeToFlagName without the check that the key is a direct leaf of the path.
nodeToFlagNameAnyDepth(path, node) ==
  IF node.dir THEN [err |-> "directory", name |-> <<>>]
  ELSE IF ~HasPrefix(node.key, path) THEN [err |-> "prefix", name |-> <<>>]
  ELSE [err |-> "nil", name |-> TrimPrefix(node.key, path)]

\* nodeToFlagName: the flag a node stands for, or an error.
nodeToFlagName(path, node) ==
  IF node.dir THEN [err |-> "directory", name |-> <<>>]
  ELSE IF ~HasPrefix(node.key, path) THEN [err |-> "prefix", name |-> <<>>]
  ELSE IF Count(TrimPrefix(node.key, path), Slash) > 0 THEN [err |-> "notLeaf", name |-> <<>>]
  ELSE [err |-> "nil", name |-> TrimPrefix(node.key, path)]

\* setFlag that hands an empty value to the flag instead of returning errNoValue.
setFlagEmptyToo(fl, flagName, value, onlyDynamic) ==
  IF flagName \notin DOMAIN fl THEN [err |-> "notFound", flags |-> fl]
  ELSE IF onlyDynamic /\ ~IsFlagDynamic(flagName) THEN [err |-> "errFlagNotDynamic", flags |-> fl]
  ELSE FlagValueSet(fl, flagName, value)

\* setFlag that sets static flags too, whatever onlyDynamic says.
setFlagAnyFlag(fl, flagName, value, onlyDynamic) ==
  IF value = "" THEN [err |-> "errNoValue", flags |-> fl]
  ELSE IF flagName \notin DOMAIN fl THEN [err |-> "notFound", flags |-> fl]
  ELSE FlagValueSet(fl, flagName, value)

\* setFlag: errNoValue, flag not found, errFlagNotDynamic, or what the flag's Set says.
setFlag(fl, flagName, value, onlyDynamic) ==
  IF value = "" THEN [err |-> "errNoValue", flags |-> fl]
  ELSE IF flagName \notin DOMAIN fl THEN [err |-> "notFound", flags |-> fl]
  ELSE IF onlyDynamic /\ ~IsFlagDynamic(flagName) THEN [err |-> "errFlagNotDynamic", flags |-> fl]
  ELSE FlagValueSet(fl, flagName, value)

\* The loop of readAllFlags, returning at the first error instead of collecting it.
RECURSIVE applyNodesStopAtError(_, _, _, _, _, _)
applyNodesStopAtError(path, nodes, i, fl, errs, onlyDynamic) ==
  IF i > Len(nodes) THEN [flags |-> fl, errs |-> errs]
  ELSE LET n == nodeToFlagName(path, nodes[i]) IN
       IF n.err # "nil" THEN applyNodesStopAtError(path, nodes, i + 1, fl, errs, onlyDynamic)
       ELSE LET r == setFlag(fl, n.name, nodes[i].value, onlyDynamic) IN
            IF r.err # "nil" /\ r.err # "errNoValue"
            THEN [flags |-> r.flags, errs |-> Append(errs, <<n.name, r.err>>)]
            ELSE applyNodesStopAtError(path, nodes, i + 1, r.flags, errs, onlyDynamic)

\* The loop of readAllFlags over resp.Node.Nodes, from node i on: every node is
\* tried, and the errors other than errNoValue are collected.
RECURSIVE applyNodes(_, _, _, _, _, _)
applyNodes(path, nodes, i, fl, errs, onlyDynamic) ==
  IF i > Len(nodes) THEN [flags |-> fl, errs |-> errs]
  ELSE LET n == nodeToFlagName(path, nodes[i]) IN
       IF n.err # "nil" THEN applyNodes(path, nodes, i + 1, fl, errs, onlyDynamic)
       ELSE LET r == setFlag(fl, n.name, nodes[i].value, onlyDynamic) IN
            applyNodes(path, nodes, i + 1, r.flags,
                       IF r.err # "nil" /\ r.err # "errNoValue"
                       THEN Append(errs, <<n.name, r.err>>) ELSE errs,
                       onlyDynamic)

\* readAllFlags that does not record the index of the read.
readAllFlagsNoIndex(path, fl, last, st, idx, getOk, onlyDynamic) ==
  IF ~getOk THEN [err |-> "getError", lastIndex |-> last, flags |-> fl]
  ELSE LET r == applyNodes(path, GetNodes(st), 1, fl, <<>>, onlyDynamic) IN
       [err |-> IF Len(r.errs) > 0 THEN "aggregate" ELSE "nil",
        lastIndex |-> last, flags |-> r.flags]

\* readAllFlags, given whether the Get went through: the error returned, the new
\* lastIndex and the flags.
readAllFlags(path, fl, last, st, idx, getOk, onlyDynamic) ==
  IF ~getOk THEN [err |-> "getError", lastIndex |-> last, flags |-> fl]
  ELSE LET r == applyNodes(path, GetNodes(st), 1, fl, <<>>, onlyDynamic) IN
       [err |-> IF Len(r.errs) > 0 THEN "aggregate" ELSE "nil",
        lastIndex |-> idx, flags |-> r.flags]

\* The error branches of watchForUpdates with every error but the cancellation
\* answered by a re-read of the store.
watchErrorBranchRereads(err) ==
  CASE err = "Canceled" -> "Stopped"
    [] OTHER -> "Recovering"

\* The error branches of watchForUpdates with an unclassified error ending the loop.
watchErrorBranchExits(err) ==
  CASE err = "EventIndexCleared" -> "Recovering"
    [] err = "ClusterError" -> "BackoffCluster"
    [] err = "DeadlineExceeded" -> "Watching"
    [] OTHER -> "Stopped"

\* The error branches of watchForUpdates with the cancellation retried like any
\* other error.
watchErrorBranchRetries(err) ==
  CASE err = "EventIndexCleared" -> "Recovering"
    [] err = "ClusterError" -> "BackoffCluster"
    [] err = "DeadlineExceeded" -> "Watching"
    [] OTHER -> "BackoffGeneric"

\* Where watchForUpdates goes on an error of watcher.Next: the re-read, a sleep
\* and continue, continue at once, break, or the longer sleep and continue.
watchErrorBranch(err) ==
  CASE err = "EventIndexCleared" -> "Recovering"
    [] err = "ClusterError" -> "BackoffCluster"
    [] err = "DeadlineExceeded" -> "Watching"
    [] err = "Canceled" -> "Stopped"
    [] OTHER -> "BackoffGeneric"

\* Whether the watch goroutine is running.
LoopActive == pc \notin {"Idle", "Stopped"}

\* handleEvent without the call of rollbackEtcdValue on a rejected value.
handleEventNoRollback(path, fl, e) ==
  LET n == nodeToFlagName(path, e) IN
  IF n.err # "nil" THEN [flags |-> fl, err |-> n.err, rollback |-> FALSE]
  ELSE LET r == setFlag(fl, n.name, e.value, TRUE) IN
       [flags |-> r.flags, err |-> r.err, rollback |-> FALSE]

\* What one iteration of watchForUpdates does with a delivered event, up to the
\* decision to roll back: the flags after setFlag, its error, and whether
\* rollbackEtcdValue is called.
handleEvent(path, fl, e) ==
  LET n == nodeToFlagName(path, e) IN
  IF n.err # "nil" THEN [flags |-> fl, err |-> n.err, rollback |-> FALSE]
  ELSE LET r == setFlag(fl, n.name, e.value, TRUE) IN
       [flags |-> r.flags, err |-> r.err,
        rollback |-> r.err \notin {"nil", "errNoValue", "errFlagNotDynamic"}]

\* rollbackRequest without the condition on the index.
rollbackRequestUnconditioned(e, last) ==
  IF e.hasPrev
  THEN [op |-> "Set", key |-> e.key, value |-> e.prevValue, prevIndex |-> 0]
  ELSE [op |-> "Delete", key |-> e.key, value |-> "", prevIndex |-> 0]

\* The request rollbackEtcdValue sends for a response: a Set of the previous value,
\* or a Delete when there was none, conditioned on prevIndex = lastIndex.
rollbackRequest(e, last) ==
  IF e.hasPrev
  THEN [op |-> "Set", key |-> e.key, value |-> e.prevValue, prevIndex |-> last]
  ELSE [op |-> "Delete", key |-> e.key, value |-> "", prevIndex |-> last]

\* What the store does with a rollback request that reaches it.
storeApply(st, idx, hist, req) ==
  IF req.op = "Set" THEN StoreSet(st, idx, hist, req.key, req.value, req.prevIndex)
  ELSE StoreDelete(st, idx, hist, req.key, req.prevIndex)

\* How rollbackEtcdValue classifies the answer: all three branches only log.
rollbackOutcome(res) ==
  IF res = "TestFailed" THEN "conflict" ELSE IF res # "ok" THEN "failed" ELSE "rolledBack"

\* ------------------------------------------------------- DynProto3Value

\* The goroutines that call Set and Get on the value.
Goroutines == {"g1", "g2"}

\* The fields of the message type, in the order the decoders fill them.
FieldNames == <<"x", "y">>

\* reflect.New(d.structType): every field at its default.
ZeroStruct == [x |-> 0, y |-> 0]

\* The instance handed to DynProto3 as the default value.
DefaultStruct == [x |-> 1, y |-> 1]

\* strings.TrimSpace
TrimSpace(str) ==
  LET solid == {i \in 1..Len(str) : str[i] # " "} IN
  IF solid = {} THEN <<>>
  ELSE SubSeq(str, CHOOSE i \in solid : \A j \in solid : i <= j,
                   CHOOSE i \in solid : \A j \in solid : i >= j)

\* The test of Set that sends the input to jsonpb rather than to proto.Unmarshal.
IsJSON(input) ==
  HasPrefix(TrimSpace(input), <<"{">>) /\ HasSuffix(TrimSpace(input), <<"}">>)

\* The inputs handed to Set: JSON for (2,2) with a space in front, JSON for (9,1),
\* JSON that breaks off after the first field, and the wire bytes of (3,3).
SetInputs ==
  {<<" ", "{", "2", "2", "}">>, <<"{", "9", "1", "}">>, <<"{", "1", "?", "}">>,
   <<"3", "3">>}

FieldValue(c) ==
  CASE c = "1" -> 1
    [] c = "2" -> 2
    [] c = "3" -> 3
    [] c = "9" -> 9
    [] OTHER -> 0

IsFieldValue(c) == c \in {"1", "2", "3", "9"}

\* jsonpb.UnmarshalString or proto.Unmarshal on the input: the fields it writes
\* into the struct, in order, and whether it then fails.
unmarshal(input) ==
  LET t == TrimSpace(input)
      b == IF IsJSON(input) THEN SubSeq(t, 2, Len(t) - 1) ELSE input
      ok(i) == i <= Len(b) /\ i <= Len(FieldNames) /\ IsFieldValue(b[i])
      n == IF ~ok(1) THEN 0 ELSE IF ~ok(2) THEN 1 ELSE 2
  IN [writes |-> [i \in 1..n |-> FieldValue(b[i])], err |-> Len(b) # n]

\* The struct a decoder leaves behind when it runs to its end on a fresh struct.
Decoded(input) ==
  [f \in {"x", "y"} |->
     LET u == unmarshal(input)
         i == CHOOSE j \in 1..Len(FieldNames) : FieldNames[j] = f IN
     IF i <= Len(u.writes) THEN u.writes[i] ELSE 0]

\* A Set whose validator is never asked.
validatorRejectsNothing(hasValidator, inst) == FALSE

\* d.validator != nil and d.validator(someStruct) returns an error: the validator
\* configured here refuses a first field of 9.
validatorRejects(hasValidator, inst) == hasValidator /\ inst.x = 9

\* A Set that decodes into the stored struct instead of a new one.
newStructInPlace(heap, stored) ==
  [id |-> stored, structs |-> [heap EXCEPT ![stored] = ZeroStruct]]

\* reflect.New(d.structType) in Set: a new struct of its own for every call.
newStruct(heap, stored) ==
  [id |-> Len(heap) + 1, structs |-> Append(heap, ZeroStruct)]

\* A notifier called with the value stored when it is spawned as the old one.
notifierArgsReloaded(oldPtr, someStruct, current) == [old |-> current, new |-> someStruct]

\* The arguments of the notifier: what the swap returned, and the new struct.
notifierArgs(oldPtr, someStruct, current) == [old |-> oldPtr, new |-> someStruct]

\* A Set that calls its notifier itself and returns when the notifier has.
setReturnsAfterNotifier(g, notes) ==
  \A i \in 1..Len(notes) : notes[i].by = g => notes[i].done

\* Set returns right after the go statement, whatever the notifiers do.
setReturns(g, notes) == TRUE

\* A goroutine outside any call that has not called yet.
IdleGoroutine ==
  [pc |-> "idle", op |-> "none", input |-> <<>>, mine |-> 0, old |-> 0, k |-> 0,
   got |-> 0, seen |-> ZeroStruct, err |-> "nil"]

\* The DynProto3Value as DynProto3 leaves it: the default instance stored.
DynCreated ==
  /\ ptr = 1
  /\ structs = <<DefaultStruct>>
  /\ goroutine = [g \in Goroutines |-> IdleGoroutine]
  /\ notified = <<>>
  /\ setCalls = <<>>
  /\ swaps = <<>>

\* The flag value of the Updater's runs is summarised by FlagValueSet; the
\* DynProto3Value itself stays as created, without validator or notifier.
DynUnused ==
  /\ DynCreated
  /\ validator = FALSE
  /\ notifier = FALSE

\* ------------------------------------------------------------------- Init

\* The contents the store may start with, per key ("absent": no node).
InitContents ==
  {c \in [AllKeys -> {"absent", "dir", "", "5", "bogus"}] :
     /\ c[KeyA] \in {"absent", "", "5", "bogus"}
     /\ c[KeyS] \in {"absent", "5"}
     /\ c[KeyU] \in {"absent", "5"}
     /\ c[KeyDir] \in {"absent", "dir"}
     /\ c[KeyDeep] \in {"absent", "5"}
     /\ (c[KeyDeep] # "absent" <=> c[KeyDir] = "dir")}

KeyOrder == <<KeyA, KeyS, KeyU, KeyDir, KeyDeep>>

\* The nodes before position i of KeyOrder that exist: each took one index.
Rank(c, i) == Cardinality({j \in 1..(i - 1) : c[KeyOrder[j]] # "absent"})

\* Index 1 created the watched directory; every node that exists took the next one.
InitStore(c) ==
  [k \in AllKeys |->
     LET i == CHOOSE j \in 1..Len(KeyOrder) : KeyOrder[j] = k IN
     IF c[k] = "absent" THEN NoNode
     ELSE [present |-> TRUE, dir |-> c[k] = "dir",
           value |-> IF c[k] = "dir" THEN "" ELSE c[k], modIndex |-> 2 + Rank(c, i)]]

Init ==
  /\ etcdPath \in {New(p) : p \in PathArgs}
  /\ flags = [n \in FlagNames |-> 0]
  /\ lastIndex = 0
  /\ watching = FALSE
  /\ cancelled = FALSE
  /\ pc = "Idle"
  /\ wcursor = 0
  /\ resp = NoResp
  /\ \E c \in InitContents :
       /\ store = InitStore(c)
       /\ storeIndex = 1 + Rank(c, Len(KeyOrder) + 1)
  /\ history = <<>>
  /\ ret = [op |-> "New", err |-> "nil", read |-> FALSE]
  /\ issued = <<>>
  /\ initDone = FALSE
  /\ DynUnused

\* A request on the Updater's context fails once the context is cancelled;
\* otherwise the store answers or is unreachable.
Reachable == IF cancelled THEN {FALSE} ELSE BOOLEAN

\* -------------------------------------------------------- lifecycle calls

\* Updater.Initialize
Initialize ==
  /\ IF lastIndex # 0
     THEN /\ ret' = [op |-> "Initialize", err |-> "AlreadyInitialized", read |-> FALSE]
          /\ UNCHANGED <<etcdPath, flags, lastIndex, watching, cancelled, pc, wcursor, resp,
                         store, storeIndex, history, issued, initDone>>
     ELSE \E getOk \in Reachable :
            LET r == readAllFlags(etcdPath, flags, lastIndex, store, storeIndex, getOk, FALSE) IN
            /\ flags' = r.flags
            /\ lastIndex' = r.lastIndex
            /\ initDone' = (initDone \/ getOk)
            /\ ret' = [op |-> "Initialize", err |-> r.err, read |-> TRUE]
            /\ UNCHANGED <<etcdPath, watching, cancelled, pc, wcursor, resp,
                           store, storeIndex, history, issued>>
  /\ UNCHANGED dynVars

\* Updater.Start: the goroutine it launches opens its watcher after lastIndex.
Start ==
  /\ IF lastIndex = 0
     THEN /\ ret' = [op |-> "Start", err |-> "NotInitialized", read |-> FALSE]
          /\ UNCHANGED <<etcdPath, flags, lastIndex, watching, cancelled, pc, wcursor, resp,
                         store, storeIndex, history, issued, initDone>>
     ELSE IF watching
     THEN /\ ret' = [op |-> "Start", err |-> "AlreadyWatching", read |-> FALSE]
          /\ UNCHANGED <<etcdPath, flags, lastIndex, watching, cancelled, pc, wcursor, resp,
                         store, storeIndex, history, issued, initDone>>
     ELSE /\ watching' = TRUE
          /\ pc' = "Watching"
          /\ wcursor' = lastIndex
          /\ ret' = [op |-> "Start", err |-> "nil", read |-> FALSE]
          /\ UNCHANGED <<etcdPath, flags, lastIndex, cancelled, resp,
                         store, storeIndex, history, issued, initDone>>
  /\ UNCHANGED dynVars

\* Updater.Stop
Stop ==
  /\ IF ~watching
     THEN /\ ret' = [op |-> "Stop", err |-> "NotWatching", read |-> FALSE]
          /\ UNCHANGED <<etcdPath, flags, lastIndex, watching, cancelled, pc, wcursor, resp,
                         store, storeIndex, history, issued, initDone>>
     ELSE /\ cancelled' = TRUE
          /\ ret' = [op |-> "Stop", err |-> "nil", read |-> FALSE]
          /\ UNCHANGED <<etcdPath, flags, lastIndex, watching, pc, wcursor, resp,
                         store, storeIndex, history, issued, initDone>>
  /\ UNCHANGED dynVars

\* ------------------------------------------------------- watchForUpdates

\* watcher.Next delivers the next change: the cursor advances, the flag is set, and
\* a rejected value goes on to rollbackEtcdValue.
WatchEvent ==
  /\ pc = "Watching"
  /\ watching
  /\ ~cancelled
  /\ Pending(history, wcursor) # {}
  /\ LET e == NextEvent(history, wcursor)
         h == handleEvent(etcdPath, flags, e) IN
     /\ wcursor' = e.modIndex
     /\ lastIndex' = e.modIndex
     /\ flags' = h.flags
     /\ pc' = IF h.rollback THEN "Rollback" ELSE "Watching"
     /\ resp' = IF h.rollback THEN e ELSE NoResp
  /\ UNCHANGED <<etcdPath, watching, cancelled, store, storeIndex, history, ret, issued, initDone>>
  /\ UNCHANGED dynVars

\* watcher.Next fails with ErrorCodeEventIndexCleared.
WatchIndexCleared ==
  /\ pc = "Watching"
  /\ watching
  /\ ~cancelled
  /\ pc' = watchErrorBranch("EventIndexCleared")
  /\ UNCHANGED <<etcdPath, flags, lastIndex, watching, cancelled, wcursor, resp,
                 store, storeIndex, history, ret, issued, initDone>>
  /\ UNCHANGED dynVars

\* The recovery that re-reads the store but keeps waiting on the old watcher.
RecoverKeepsWatcher ==
  /\ pc = "Recovering"
  /\ \E getOk \in Reachable :
       LET r == readAllFlags(etcdPath, flags, lastIndex, store, storeIndex, getOk, TRUE) IN
       /\ flags' = r.flags
       /\ lastIndex' = r.lastIndex
  /\ pc' = "Watching"
  /\ UNCHANGED <<etcdPath, watching, cancelled, wcursor, resp, store, storeIndex, history,
                 ret, issued, initDone>>
  /\ UNCHANGED dynVars

\* After the sleep: readAllFlags(onlyDynamic) and a new watcher after lastIndex.
Recover ==
  /\ pc = "Recovering"
  /\ \E getOk \in Reachable :
       LET r == readAllFlags(etcdPath, flags, lastIndex, store, storeIndex, getOk, TRUE) IN
       /\ flags' = r.flags
       /\ lastIndex' = r.lastIndex
       /\ wcursor' = r.lastIndex
  /\ pc' = "Watching"
  /\ UNCHANGED <<etcdPath, watching, cancelled, resp, store, storeIndex, history, ret,
                 issued, initDone>>
  /\ UNCHANGED dynVars

\* watcher.Next fails with a ClusterError.
WatchClusterError ==
  /\ pc = "Watching"
  /\ watching
  /\ ~cancelled
  /\ pc' = watchErrorBranch("ClusterError")
  /\ UNCHANGED <<etcdPath, flags, lastIndex, watching, cancelled, wcursor, resp,
                 store, storeIndex, history, ret, issued, initDone>>
  /\ UNCHANGED dynVars

\* watcher.Next fails with context.DeadlineExceeded: the loop continues at once.
WatchDeadline ==
  /\ pc = "Watching"
  /\ watching
  /\ ~cancelled
  /\ pc' = watchErrorBranch("DeadlineExceeded")
  /\ UNCHANGED <<etcdPath, flags, lastIndex, watching, cancelled, wcursor, resp,
                 store, storeIndex, history, ret, issued, initDone>>
  /\ UNCHANGED dynVars

\* watcher.Next fails with any other error.
WatchOtherError ==
  /\ pc = "Watching"
  /\ watching
  /\ ~cancelled
  /\ pc' = watchErrorBranch("Unexpected")
  /\ UNCHANGED <<etcdPath, flags, lastIndex, watching, cancelled, wcursor, resp,
                 store, storeIndex, history, ret, issued, initDone>>
  /\ UNCHANGED dynVars

\* The sleep of a backoff ends and the loop waits again on the same watcher.
BackoffDone ==
  /\ pc \in {"BackoffCluster", "BackoffGeneric"}
  /\ pc' = "Watching"
  /\ UNCHANGED <<etcdPath, flags, lastIndex, watching, cancelled, wcursor, resp,
                 store, storeIndex, history, ret, issued, initDone>>
  /\ UNCHANGED dynVars

\* watcher.Next fails with context.Canceled: the loop breaks and the goroutine ends.
WatchCanceled ==
  /\ pc = "Watching"
  /\ cancelled
  /\ pc' = watchErrorBranch("Canceled")
  /\ UNCHANGED <<etcdPath, flags, lastIndex, watching, cancelled, wcursor, resp,
                 store, storeIndex, history, ret, issued, initDone>>
  /\ UNCHANGED dynVars

\* rollbackEtcdValue: one conditioned Set or Delete; its answer is only logged.
Rollback ==
  /\ pc = "Rollback"
  /\ \E reach \in Reachable :
       LET req == rollbackRequest(resp, lastIndex)
           o == IF reach THEN storeApply(store, storeIndex, history, req)
                ELSE [res |-> "unreachable", store |-> store, index |-> storeIndex,
                      history |-> history] IN
       /\ o.res = "ok" => Len(history) <= MaxMutations
       /\ store' = o.store
       /\ storeIndex' = o.index
       /\ history' = o.history
       /\ issued' = Append(issued, [op |-> req.op, key |-> req.key, value |-> req.value,
                                    prevIndex |-> req.prevIndex, forIndex |-> resp.modIndex,
                                    res |-> o.res, outcome |-> rollbackOutcome(o.res)])
  /\ pc' = "Watching"
  /\ resp' = NoResp
  /\ UNCHANGED <<etcdPath, flags, lastIndex, watching, cancelled, wcursor, ret,
                 initDone>>
  /\ UNCHANGED dynVars

\* ------------------------------------------------- the rest of the world

\* Other clients of the store. What they did before the Updater read the store is
\* part of the initial contents, so they act once Initialize has read it.

\* The values an operator (or another process) writes, per key.
WriteValues(k) ==
  CASE k = KeyA -> Values
    [] k = KeyS -> {"7"}
    [] k = KeyU -> {"5"}
    [] k = KeyDeep -> {"5"}
    [] OTHER -> {}

\* Another client sets a key.
ExternalSet ==
  /\ lastIndex # 0
  /\ Len(history) < MaxMutations
  /\ \E k \in AllKeys : \E v \in WriteValues(k) :
       /\ store' = Written(store, storeIndex, k, v)
       /\ history' = Append(history, Event("set", k, FALSE, v, storeIndex + 1, store[k]))
  /\ storeIndex' = storeIndex + 1
  /\ UNCHANGED updaterVars
  /\ UNCHANGED dynVars

\* Another client deletes a flag's key.
ExternalDelete ==
  /\ lastIndex # 0
  /\ Len(history) < MaxMutations
  /\ store[KeyA].present
  /\ store' = [store EXCEPT ![KeyA] = NoNode]
  /\ history' = Append(history, Event("delete", KeyA, FALSE, "", storeIndex + 1, store[KeyA]))
  /\ storeIndex' = storeIndex + 1
  /\ UNCHANGED updaterVars
  /\ UNCHANGED dynVars

\* Another client creates the directory below the watched path.
ExternalMkdir ==
  /\ lastIndex # 0
  /\ Len(history) < MaxMutations
  /\ ~store[KeyDir].present
  /\ store' = [store EXCEPT ![KeyDir] = [present |-> TRUE, dir |-> TRUE, value |-> "",
                                         modIndex |-> storeIndex + 1]]
  /\ history' = Append(history, Event("set", KeyDir, TRUE, "", storeIndex + 1, NoNode))
  /\ storeIndex' = storeIndex + 1
  /\ UNCHANGED updaterVars
  /\ UNCHANGED dynVars

Next ==
  \/ Initialize
  \/ Start
  \/ Stop
  \/ WatchEvent
  \/ WatchIndexCleared
  \/ Recover
  \/ WatchClusterError
  \/ WatchDeadline
  \/ WatchOtherError
  \/ BackoffDone
  \/ WatchCanceled
  \/ Rollback
  \/ ExternalSet
  \/ ExternalDelete
  \/ ExternalMkdir

Spec == Init /\ [][Next]_vars

\* The goroutine of the loop is scheduled: a sleep ends, a request on the context
\* returns (with an error once the context is cancelled), and a wait on a
\* cancelled context returns context.Canceled.
FairSpec ==
  /\ Spec
  /\ WF_vars(WatchCanceled)
  /\ WF_vars(Recover)
  /\ WF_vars(BackoffDone)
  /\ WF_vars(Rollback)

\* ------------------------------------------- calls on the DynProto3Value

\* DynProto3, then WithValidator and WithNotifier or not, before any call; no
\* Updater runs.
DynInit ==
  /\ DynCreated
  /\ validator \in BOOLEAN
  /\ notifier \in BOOLEAN
  /\ etcdPath = New(<<"/", "c">>)
  /\ flags = [n \in FlagNames |-> 0]
  /\ lastIndex = 0
  /\ watching = FALSE
  /\ cancelled = FALSE
  /\ pc = "Idle"
  /\ wcursor = 0
  /\ resp = NoResp
  /\ store = [k \in AllKeys |-> NoNode]
  /\ storeIndex = 1
  /\ history = <<>>
  /\ ret = [op |-> "New", err |-> "nil", read |-> FALSE]
  /\ issued = <<>>
  /\ initDone = FALSE

\* What a goroutine keeps of a call that has returned.
Returned(op, err) == [IdleGoroutine EXCEPT !.op = op, !.err = err]

\* Set is called: the struct to decode into is allocated.
SetCall(g, input) ==
  /\ goroutine[g].pc = "idle"
  /\ Len(setCalls) < MaxCalls
  /\ LET n == newStruct(structs, ptr) IN
       /\ structs' = n.structs
       /\ goroutine' = [goroutine EXCEPT ![g] =
            [IdleGoroutine EXCEPT !.pc = "unmarshal", !.op = "Set", !.input = input,
                                  !.mine = n.id, !.k = 1]]
       /\ setCalls' = Append(setCalls, [input |-> input, id |-> n.id])
  /\ UNCHANGED <<ptr, validator, notifier, notified, swaps, etcdVars>>

\* The decoder writes the next field, or ends: with its error Set returns.
Unmarshal(g) ==
  /\ goroutine[g].pc = "unmarshal"
  /\ LET c == goroutine[g]
         u == unmarshal(c.input) IN
       IF c.k <= Len(u.writes)
       THEN /\ structs' = [structs EXCEPT ![c.mine][FieldNames[c.k]] = u.writes[c.k]]
            /\ goroutine' = [goroutine EXCEPT ![g].k = c.k + 1]
       ELSE /\ structs' = structs
            /\ goroutine' = [goroutine EXCEPT ![g] =
                 IF u.err THEN Returned("Set", "parse")
                 ELSE [c EXCEPT !.pc = "validate"]]
  /\ UNCHANGED <<ptr, validator, notifier, notified, setCalls, swaps, etcdVars>>

\* The validator, when there is one, is run on the decoded struct.
RunValidator(g) ==
  /\ goroutine[g].pc = "validate"
  /\ LET c == goroutine[g] IN
       goroutine' = [goroutine EXCEPT ![g] =
         IF validatorRejects(validator, structs[c.mine])
         THEN Returned("Set", "validation")
         ELSE [c EXCEPT !.pc = "swap"]]
  /\ UNCHANGED <<ptr, structs, validator, notifier, notified, setCalls, swaps, etcdVars>>

\* atomic.SwapPointer: the new struct is stored and the old pointer taken.
Swap(g) ==
  /\ goroutine[g].pc = "swap"
  /\ ptr' = goroutine[g].mine
  /\ goroutine' = [goroutine EXCEPT ![g].old = ptr, ![g].pc = "notify"]
  /\ swaps' = Append(swaps, [old |-> ptr, new |-> goroutine[g].mine])
  /\ UNCHANGED <<structs, validator, notifier, notified, setCalls, etcdVars>>

\* if d.notifier != nil: go d.notifier(old, new).
Notify(g) ==
  /\ goroutine[g].pc = "notify"
  /\ LET c == goroutine[g]
         a == notifierArgs(c.old, c.mine, ptr) IN
       notified' = IF notifier
                   THEN Append(notified, [old |-> a.old, new |-> a.new, by |-> g,
                                          done |-> FALSE])
                   ELSE notified
  /\ goroutine' = [goroutine EXCEPT ![g].pc = "return"]
  /\ UNCHANGED <<ptr, structs, validator, notifier, setCalls, swaps, etcdVars>>

\* return nil
Return(g) ==
  /\ goroutine[g].pc = "return"
  /\ setReturns(g, notified)
  /\ goroutine' = [goroutine EXCEPT ![g] = Returned("Set", "nil")]
  /\ UNCHANGED <<ptr, structs, validator, notifier, notified, setCalls, swaps, etcdVars>>

\* Get: atomic.LoadPointer; the caller holds the instance stored at that moment.
GetCall(g) ==
  /\ goroutine[g].pc = "idle"
  /\ goroutine' = [goroutine EXCEPT ![g] =
       [IdleGoroutine EXCEPT !.pc = "read", !.op = "Get", !.got = ptr, !.k = 1]]
  /\ UNCHANGED <<ptr, structs, validator, notifier, notified, setCalls, swaps, etcdVars>>

\* The caller of Get reads the next field of the instance it was given.
ReadField(g) ==
  /\ goroutine[g].pc = "read"
  /\ LET c == goroutine[g]
         seen == [c.seen EXCEPT ![FieldNames[c.k]] = structs[c.got][FieldNames[c.k]]] IN
       goroutine' = [goroutine EXCEPT ![g] =
         IF c.k = Len(FieldNames) THEN Returned("Get", "nil")
         ELSE [c EXCEPT !.seen = seen, !.k = c.k + 1]]
  /\ UNCHANGED <<ptr, structs, validator, notifier, notified, setCalls, swaps, etcdVars>>

\* A notifier goroutine finishes; nothing makes it.
NotifierDone ==
  /\ \E i \in 1..Len(notified) :
       /\ ~notified[i].done
       /\ notified' = [notified EXCEPT ![i].done = TRUE]
  /\ UNCHANGED <<ptr, structs, validator, notifier, goroutine, setCalls, swaps, etcdVars>>

\* The steps inside a call of goroutine g.
InCall(g) ==
  Unmarshal(g) \/ RunValidator(g) \/ Swap(g) \/ Notify(g) \/ Return(g) \/ ReadField(g)

DynNext ==
  \/ \E g \in Goroutines : \E input \in SetInputs : SetCall(g, input)
  \/ \E g \in Goroutines : Unmarshal(g)
  \/ \E g \in Goroutines : RunValidator(g)
  \/ \E g \in Goroutines : Swap(g)
  \/ \E g \in Goroutines : Notify(g)
  \/ \E g \in Goroutines : Return(g)
  \/ \E g \in Goroutines : GetCall(g)
  \/ \E g \in Goroutines : ReadField(g)
  \/ NotifierDone

DynSpec == DynInit /\ [][DynNext]_vars

\* ------------------------------------------------------------ properties

\* The event the watcher delivers next (when one is pending).
Delivered == NextEvent(history, wcursor)

\* An event on the key of the dynamic flag "a" whose value the flag refuses.
RejectedByDynamic(e) == ~e.dir /\ e.key = KeyA /\ e.value # "" /\ ~Accepts(FlagA, e.value)

\* The loop leaves rollbackEtcdValue in this step.
RollbackStep == pc = "Rollback" /\ pc' # "Rollback"

C1_Step ==
  /\ (WatchEvent /\ RejectedByDynamic(Delivered)) =>
       (pc' = "Rollback" /\ resp' = Delivered /\ issued' = issued)
  /\ (RollbackStep /\ RejectedByDynamic(resp)) =>
       /\ pc' = "Watching"
       /\ Len(issued') = Len(issued) + 1
       /\ SubSeq(issued', 1, Len(issued)) = issued
       /\ storeIndex' \in {storeIndex, storeIndex + 1}
       /\ \A i \in 1..Len(issued) : issued[i].forIndex # resp.modIndex
       /\ LET m == issued'[Len(issued')] IN
            /\ m.key = resp.key
            /\ m.forIndex = resp.modIndex
            /\ m.prevIndex = resp.modIndex
            /\ IF resp.hasPrev THEN m.op = "Set" /\ m.value = resp.prevValue
               ELSE m.op = "Delete"
  /\ ~RollbackStep => issued' = issued

\* C1: a change event whose value the dynamic flag rejects sends the loop to
\* rollbackEtcdValue, which issues exactly one store mutation for it: a Set of the
\* key to the event's previous value when there is one, otherwise a Delete, with
\* prevIndex equal to the event's modifiedIndex; whatever the store answers, no
\* other step issues a mutation and none is issued twice for one event.
C1_ExactlyOneRollback == [][C1_Step]_vars

\* C1 witness: a rejected value of "a" was rolled back by a conditioned Set.
C1_Witness ==
  /\ pc = "Watching"
  /\ \E i \in 1..Len(issued) :
       issued[i].key = KeyA /\ issued[i].op = "Set" /\ issued[i].outcome = "rolledBack"

\* The loop waits on its watcher with nothing left to deliver.
Quiescent == pc = "Watching" /\ ~cancelled /\ Pending(history, wcursor) = {}

\* The node of k was last written by a change made after Initialize read the store.
WrittenWhileRunning(k) ==
  \E i \in 1..Len(history) : history[i].key = k /\ history[i].modIndex = store[k].modIndex

\* No rollback request failed for a reason other than its condition.
OnlyConflicts == \A i \in 1..Len(issued) : issued[i].outcome # "failed"

\* C2: with every pending event consumed (and no rollback lost to a failure other
\* than a condition conflict), the key of the dynamic flag "a" is absent from the
\* store or holds a value the flag accepts: the store is not left holding a value
\* the process refused.
C2_NoRefusedValueLeft ==
  (Quiescent /\ OnlyConflicts /\ WrittenWhileRunning(KeyA)) =>
    (~store[KeyA].present \/ store[KeyA].value = "" \/ Accepts(FlagA, store[KeyA].value))

C3_Step ==
  (RollbackStep /\ (~store[resp.key].present \/ store[resp.key].modIndex # resp.modIndex)) =>
    /\ store' = store
    /\ storeIndex' = storeIndex
    /\ history' = history
    /\ pc' = "Watching"
    /\ LET m == issued'[Len(issued')] IN
         (store[resp.key].present /\ m.res # "unreachable") => m.outcome = "conflict"

Ignorable(e) == e.value = "" \/ (~e.dir /\ e.key = KeyU)

C4_Step ==
  /\ (WatchEvent /\ Ignorable(Delivered)) =>
       (flags' = flags /\ pc' = "Watching" /\ issued' = issued)
  /\ RollbackStep => ~Ignorable(resp)

\* C4: an event that carries no value, or whose key names a flag that is not
\* registered, changes no flag, sends no Set or Delete to the store and leaves the
\* loop Watching.
C4_IgnoredEvents == [][C4_Step]_vars

C5_Step ==
  watching =>
    /\ flags'[FlagS] = flags[FlagS]
    /\ \A i \in 1..Len(issued') : issued'[i].key # KeyS

\* C5: once Start has launched the loop, the value of the static flag "s" never
\* changes and no rollback request is ever sent for its key, neither on a change
\* event for the key nor on the re-read after an index-cleared error.
C5_StaticFlagUntouched == [][C5_Step]_vars

\* C5 witness: the loop consumed a change of the static flag's key to "7", or
\* re-read it, and the flag still holds another value.
C5_Witness ==
  /\ Quiescent
  /\ store[KeyS].value = "7"
  /\ wcursor >= store[KeyS].modIndex
  /\ flags[FlagS] # 7

\* C6 as claimed: an Initialize called after any earlier Initialize has returned
\* fails with AlreadyInitialized, reads nothing and changes no flag.
C6_AnySecondInitialize ==
  [][(ret.op = "Initialize" /\ Initialize) =>
       (ret'.err = "AlreadyInitialized" /\ ~ret'.read /\ flags' = flags)]_vars

\* C6: an Initialize called after an earlier Initialize has read the snapshot
\* fails with AlreadyInitialized, performs no store read and changes neither a
\* flag nor the cursor.
C6_InitializeAfterRead ==
  [][(initDone /\ Initialize) =>
       /\ ret' = [op |-> "Initialize", err |-> "AlreadyInitialized", read |-> FALSE]
       /\ flags' = flags
       /\ lastIndex' = lastIndex]_vars

\* C6 witness: a later Initialize was refused while the store had moved on from
\* the snapshot the first one read.
C6_Witness ==
  /\ initDone
  /\ ret.op = "Initialize"
  /\ ret.err = "AlreadyInitialized"
  /\ Len(history) > 0

\* C7: Start returns NotInitialized before Initialize has read the store,
\* AlreadyWatching while a watch loop is active, and otherwise marks watching,
\* launches the loop and succeeds, also after an earlier loop has exited.
C7_StartOutcome ==
  [][Start =>
       IF ~initDone
       THEN ret'.err = "NotInitialized" /\ pc' = pc /\ watching' = watching
       ELSE IF LoopActive
       THEN ret'.err = "AlreadyWatching" /\ pc' = pc /\ watching' = watching
       ELSE ret'.err = "nil" /\ watching' /\ pc' = "Watching"]_vars

\* C8: Stop called while no watch loop is active, before any Start or after the
\* loop has exited, fails with NotWatching, signals nothing and changes no state.
C8_StopWithoutLoop ==
  [][(Stop /\ ~LoopActive) =>
       /\ ret'.err = "NotWatching"
       /\ cancelled' = cancelled
       /\ UNCHANGED <<flags, lastIndex, watching, pc, wcursor, store>>]_vars

\* The key of a registered flag.
FlagKey(n) == etcdPath \o n

\* This step is an Initialize whose snapshot read went through.
ReadSnapshot == Initialize /\ ret'.read /\ ret'.err # "getError"

\* C9 as claimed: after an Initialize that read the snapshot, every registered flag
\* with a non-empty value on its key holds that value.
C9_EveryStoredValue ==
  [][ReadSnapshot =>
       \A n \in FlagNames :
         (store[FlagKey(n)].present /\ ~store[FlagKey(n)].dir /\ store[FlagKey(n)].value # "")
           => /\ ParseValue(store[FlagKey(n)].value).ok
              /\ flags'[n] = ParseValue(store[FlagKey(n)].value).v]_vars

\* C9: after an Initialize that read the snapshot, with or without an aggregate
\* error, every registered flag whose key holds a non-empty value the flag accepts
\* holds that value, whatever failed on the entries before or after it; a flag
\* whose entry is absent, empty or refused keeps the value it had.
C9_AcceptedStoredValues ==
  [][ReadSnapshot =>
       \A n \in FlagNames :
         IF /\ store[FlagKey(n)].present
            /\ ~store[FlagKey(n)].dir
            /\ Accepts(n, store[FlagKey(n)].value)
         THEN flags'[n] = ParseValue(store[FlagKey(n)].value).v
         ELSE flags'[n] = flags[n]]_vars

\* C9 witness: Initialize returned the aggregate error for the refused value of "a",
\* listed first, and the value of "s", listed after it, is applied.
C9_Witness ==
  /\ ret = [op |-> "Initialize", err |-> "aggregate", read |-> TRUE]
  /\ store[KeyA].value = "bogus"
  /\ store[KeyS].value = "5"
  /\ flags[FlagS] = 5
  /\ flags[FlagA] = 0

\* The entries of the snapshot that are values one segment below the path, and the
\* flag each stands for ("u" is not registered).
DirectLeaves == {KeyA, KeyS, KeyU}

LeafFails(k) ==
  /\ store[k].present
  /\ store[k].value # ""
  /\ \/ k = KeyU
     \/ k = KeyA /\ ~Accepts(FlagA, store[k].value)
     \/ k = KeyS /\ ~Accepts(FlagS, store[k].value)

\* C10: an Initialize whose snapshot read succeeds returns the aggregate error
\* exactly when some direct leaf with a non-empty value names an unregistered flag
\* or is refused by its flag; empty values, directories and nested keys never
\* count, and otherwise it returns no error.
C10_AggregateErrorIff ==
  [][ReadSnapshot =>
       /\ ret'.err \in {"nil", "aggregate"}
       /\ ret'.err = "aggregate" <=> \E k \in DirectLeaves : LeafFails(k)]_vars

\* C10 witness: Initialize returned no error on a snapshot with an empty value, a
\* directory and a nested key.
C10_Witness ==
  /\ ret = [op |-> "Initialize", err |-> "nil", read |-> TRUE]
  /\ store[KeyA].present
  /\ store[KeyA].value = ""
  /\ store[KeyDir].present
  /\ store[KeyDeep].present
  /\ store[KeyS].present

\* A node nodeToFlagName refuses: a directory, a key outside the path, or a key more
\* than one segment below it.
NotAFlagNode(n) ==
  \/ n.dir
  \/ ~HasPrefix(n.key, etcdPath)
  \/ Count(TrimPrefix(n.key, etcdPath), Slash) > 0

\* This step is a bulk load that read the store: Initialize, or the re-read of the
\* recovery.
BulkLoad == ReadSnapshot \/ (Recover /\ lastIndex' = storeIndex)

C11_Step ==
  /\ (WatchEvent /\ NotAFlagNode(Delivered)) =>
       /\ flags' = flags
       /\ pc' = "Watching"
       /\ resp' = NoResp
       /\ issued' = issued
       /\ store' = store
  /\ RollbackStep => ~NotAFlagNode(resp)
  /\ BulkLoad =>
       /\ issued' = issued
       /\ store' = store
       /\ \A n \in FlagNames :
            flags'[n] # flags[n] =>
              /\ store[FlagKey(n)].present
              /\ ~store[FlagKey(n)].dir
              /\ flags'[n] = ParseValue(store[FlagKey(n)].value).v

\* C11: a change event whose node is a directory, lies outside the path or lies
\* more than one segment below it changes no flag and sends the loop back to
\* Watching without a rollback; no rollback is ever made for such a node; and a
\* bulk load (Initialize, or the re-read of the recovery) changes a flag only to
\* the value of the flag's own direct leaf and issues no Set or Delete.
C11_NonFlagNodesIgnored == [][C11_Step]_vars

\* C11 witness: the loop consumed the change of a key two segments below the path
\* (and with it the creation of its directory), no flag moved and nothing was
\* rolled back.
C11_Witness ==
  /\ Quiescent
  /\ \E i \in 1..Len(history) : history[i].key = KeyDeep /\ history[i].value = "5"
  /\ ~store[KeyA].present
  /\ flags[FlagA] = 0
  /\ issued = <<>>

\* What the loop itself owns or sends: the flags, the cursor, the watcher's
\* index and the rollback requests.
LoopFrame == UNCHANGED <<flags, lastIndex, wcursor, resp, issued>>

\* The store is not written by the Updater in this step.
NoUpdaterWrite ==
  \/ UNCHANGED <<store, storeIndex, history>>
  \/ /\ Len(history') = Len(history) + 1
     /\ history'[Len(history')].action \in {"set", "delete"}

C15_Step ==
  /\ WatchClusterError => (pc' = "BackoffCluster" /\ LoopFrame /\ NoUpdaterWrite)
  /\ WatchOtherError => (pc' = "BackoffGeneric" /\ LoopFrame /\ NoUpdaterWrite)
  /\ WatchDeadline => (pc' = "Watching" /\ LoopFrame /\ NoUpdaterWrite)
  /\ pc \in {"BackoffCluster", "BackoffGeneric"} =>
       (pc' \in {pc, "Watching"} /\ LoopFrame /\ NoUpdaterWrite)

\* C15: on a ClusterError, a DeadlineExceeded or any other unclassified error of
\* watcher.Next the loop keeps lastIndex, the flags and the watcher it waits on,
\* sends nothing to the store, and (after the sleep of the two backoffs, at once
\* for the deadline) is back in Watching on the same watcher.
C15_RetryWithoutChange == [][C15_Step]_vars

\* C15 witness: the loop sleeps after an error while a change it has not consumed
\* is waiting behind the same cursor.
C15_Witness ==
  /\ pc \in {"BackoffCluster", "BackoffGeneric"}
  /\ Pending(history, wcursor) # {}
  /\ wcursor = lastIndex

\* C16 as claimed: the recovery always ends with the index of a fresh read as
\* the cursor and the watcher reopened after it.
C16_AlwaysFreshCursor ==
  [][Recover => (pc' = "Watching" /\ lastIndex' = storeIndex /\ wcursor' = storeIndex)]_vars

\* C16: an index-cleared error sends the loop to the recovery; the recovery ends
\* in Watching with a new watcher opened after lastIndex, and lastIndex is the
\* index of the re-read whenever it moved: only when the Get of the re-read fails
\* (always once the context is cancelled) do the cursor and the flags stay as
\* they were and the new watcher starts from the old index.
C16_RecoveryCursor ==
  [][/\ WatchIndexCleared => (pc' = "Recovering" /\ LoopFrame)
     /\ Recover =>
          /\ pc' = "Watching"
          /\ wcursor' = lastIndex'
          /\ lastIndex' \in {lastIndex, storeIndex}
          /\ lastIndex' # storeIndex => flags' = flags
          /\ cancelled => lastIndex' = lastIndex
          /\ issued' = issued]_vars

\* C16 witness: after a recovery the watcher waits behind the index of the
\* re-read, past the changes it never consumed.
C16_Witness ==
  /\ pc = "Watching"
  /\ ~cancelled
  /\ history # <<>>
  /\ wcursor = storeIndex
  /\ lastIndex = storeIndex
  /\ issued = <<>>
  /\ flags[FlagA] = 5
  /\ store[KeyA].value = "5"
  /\ \E i \in 1..Len(history) : history[i].key = KeyA /\ history[i].value = "7"

\* C17: once Stop has cancelled the context the loop reaches Stopped, wherever it
\* was, and once Stopped it stays there, changes no flag and no cursor and sends
\* nothing to the store.
C17_StopReachesStopped ==
  /\ cancelled ~> (pc = "Stopped")
  /\ [][pc = "Stopped" =>
          (pc' = "Stopped" /\ LoopFrame /\ NoUpdaterWrite)]_vars

\* C17 witness: the loop has stopped with a change of the dynamic flag's key left
\* unconsumed in the store.
C17_Witness ==
  /\ pc = "Stopped"
  /\ Pending(history, wcursor) # {}
  /\ \E i \in Pending(history, wcursor) : history[i].key = KeyA

\* C18: the loop leaves for Stopped only from its wait on the watcher and only
\* with the context cancelled; no event, no rollback answer and no other error
\* ends it.
C18_StoppedOnlyByCancel ==
  [][(pc' = "Stopped" /\ pc # "Stopped") => (pc = "Watching" /\ cancelled)]_vars

\* C18 witness: the loop went through a rejected value and a rollback that
\* failed, and is still running.
C18_Witness ==
  /\ pc \in {"Watching", "BackoffGeneric"}
  /\ ~cancelled
  /\ \E i \in 1..Len(issued) : issued[i].outcome = "failed"

\* C19: lastIndex never decreases, over Initialize, every event consumed and
\* every re-read of the recovery.
C19_CursorMonotonic == [][lastIndex' >= lastIndex]_vars

\* C19 witness: the cursor moved from the index of the snapshot over two events.
C19_Witness ==
  /\ Len(history) >= 2
  /\ lastIndex = history[Len(history)].modIndex
  /\ lastIndex = storeIndex
  /\ pc = "Watching"

\* An input Set must refuse: the decoder fails on it, or the validator configured
\* refuses what it decodes to.
Refused(input) == unmarshal(input).err \/ (validator /\ Decoded(input).x = 9)

\* Goroutine g is inside a Set of an input that must be refused, and moves.
RefusedSetStep(g) ==
  /\ goroutine[g].op = "Set"
  /\ goroutine[g].pc # "idle"
  /\ Refused(goroutine[g].input)
  /\ goroutine'[g] # goroutine[g]

C12_Step ==
  \A g \in Goroutines :
    RefusedSetStep(g) =>
      /\ ptr' = ptr
      /\ structs'[ptr] = structs[ptr]
      /\ notified' = notified
      /\ swaps' = swaps
      /\ goroutine'[g].pc \in {"unmarshal", "validate", "idle"}
      /\ goroutine'[g].pc = "idle" =>
           goroutine'[g].err = IF unmarshal(goroutine[g].input).err THEN "parse"
                               ELSE "validation"

\* C12: no step of a Set whose input does not decode, or decodes to an instance
\* the validator refuses, changes the stored pointer or the stored instance or
\* spawns a notifier; the call never reaches the swap and returns an error.
C12_FailedSetChangesNothing == [][C12_Step]_vars

\* C12 witness: with a notifier configured, one Set has returned the decoder's
\* error and one the validator's, and the default instance is still stored with
\* no notifier spawned.
C12_Witness ==
  /\ notifier
  /\ \E g \in Goroutines : goroutine[g].pc = "idle" /\ goroutine[g].err = "parse"
  /\ \E g \in Goroutines : goroutine[g].pc = "idle" /\ goroutine[g].err = "validation"
  /\ ptr = 1
  /\ structs[ptr] = DefaultStruct
  /\ notified = <<>>

\* The instance a pointer stands for: the default, or what the input of the Set
\* that allocated it decodes to.
InstanceOf(id) ==
  IF id = 1 THEN DefaultStruct
  ELSE Decoded(setCalls[CHOOSE k \in 1..Len(setCalls) : setCalls[k].id = id].input)

\* The pointer is the default instance or was stored by the swap of a Set whose
\* input is not to be refused.
PublishedWhole(id) ==
  \/ id = 1
  \/ /\ \E k \in 1..Len(setCalls) : setCalls[k].id = id /\ ~Refused(setCalls[k].input)
     /\ Cardinality({i \in 1..Len(swaps) : swaps[i].new = id}) = 1

\* C13: the pointer stored, and the pointer every Get in progress was given, is
\* the default instance or the instance of exactly one successful Set, and each
\* of its fields, those the caller has read and those it is about to read, is the
\* field of that one instance.
C13_GetSeesWholeInstance ==
  /\ PublishedWhole(ptr)
  /\ structs[ptr] = InstanceOf(ptr)
  /\ \A g \in Goroutines :
       LET c == goroutine[g] IN
       c.pc = "read" =>
         /\ PublishedWhole(c.got)
         /\ \A j \in 1..Len(FieldNames) :
              (IF j < c.k THEN c.seen[FieldNames[j]] ELSE structs[c.got][FieldNames[j]])
                = InstanceOf(c.got)[FieldNames[j]]

\* C13 witness: a caller of Get is between its two field reads on an instance a
\* Set stored, while the other goroutine's Set has already replaced it.
C13_Witness ==
  \E g \in Goroutines :
    /\ goroutine[g].pc = "read"
    /\ goroutine[g].k = Len(FieldNames)
    /\ goroutine[g].got # 1
    /\ goroutine[g].got # ptr
    /\ structs[goroutine[g].got] # structs[ptr]

\* The steps goroutine g has left before its call returns, at most.
StepsLeft(g) ==
  LET c == goroutine[g] IN
  CASE c.pc = "unmarshal" -> Len(FieldNames) + 6 - c.k
    [] c.pc = "validate" -> 4
    [] c.pc = "swap" -> 3
    [] c.pc = "notify" -> 2
    [] c.pc = "return" -> 1
    [] c.pc = "read" -> Len(FieldNames) + 1 - c.k
    [] OTHER -> 0

\* C14: a goroutine inside a Set or a Get always has its next step to take,
\* whatever notifiers are still running, each step brings it closer to its
\* return, and no step of a call waits for or changes a notifier invocation
\* that was spawned before; so every call returns although a notifier never does.
C14_CallsNeverBlock ==
  /\ [](\A g \in Goroutines : goroutine[g].pc # "idle" => ENABLED InCall(g))
  /\ [][\A g \in Goroutines :
          (goroutine[g].pc # "idle" /\ goroutine'[g] # goroutine[g]) =>
            /\ StepsLeft(g) > 0
            /\ StepsLeft(g)' < StepsLeft(g)
            /\ SubSeq(notified', 1, Len(notified)) = notified]_vars

\* C14 witness: the notifier of the first Set is still running, the Set has
\* returned, and a later Set has stored its instance and returned too.
C14_Witness ==
  /\ Len(notified) = Len(swaps)
  /\ Len(swaps) > 1
  /\ \A i \in 1..Len(notified) : ~notified[i].done
  /\ \A g \in Goroutines : goroutine[g].pc = "idle"
  /\ ptr = swaps[Len(swaps)].new

\* C20: with a notifier configured, every swap has one notifier invocation, with
\* the pointer the swap replaced and the one it stored (the swap of a Set that has
\* not reached its go statement has none yet); the swaps form one chain from the
\* default instance to the stored one, so no instance is the old value of two
\* invocations and none is skipped. Without a notifier nothing is spawned.
C20_NotificationsFormChain ==
  /\ \A i \in 1..Len(swaps) :
       /\ swaps[i].old = IF i = 1 THEN 1 ELSE swaps[i - 1].new
       /\ i = Len(swaps) => swaps[i].new = ptr
  /\ ~notifier => notified = <<>>
  /\ notifier =>
       /\ \A i \in 1..Len(notified) :
            \E j \in 1..Len(swaps) :
              swaps[j].old = notified[i].old /\ swaps[j].new = notified[i].new
       /\ \A i, j \in 1..Len(notified) :
            i # j => (notified[i].old # notified[j].old /\ notified[i].new # notified[j].new)
       /\ Len(swaps) =
            Len(notified) + Cardinality({g \in Goroutines : goroutine[g].pc = "notify"})

\* C20 witness: two Sets ran at once and the notifier of the second swap was
\* spawned before that of the first.
C20_Witness ==
  /\ Len(notified) > 1
  /\ Len(swaps) > 1
  /\ notified[1].old = swaps[2].old
  /\ notified[1].new = swaps[2].new
  /\ notified[2].old = 1

====
